---- MODULE Spec2Model ----
(***************************************************************************)
(* Model of the jsci package: the streaming JSON writers of                *)
(* WriteStream.py (FileWriteStream, MemoryWriteStream and the convenience  *)
(* methods of the WriteStream base class), the path-tracking              *)
(* SelectorTransformer of parser.py, and the NumericEncoder and            *)
(* NumericDecoder of Coding.py.                                            *)
(*                                                                         *)
(* A FileWriteStream and a MemoryWriteStream are driven side by side with  *)
(* the same sequence of calls.  A method is an operator from the object    *)
(* before the call to a record [s |-> object after, exc |-> exception],    *)
(* exc = "none" when the method returns.                                   *)
(***************************************************************************)
EXTENDS Integers, Sequences, FiniteSets, TLC

VARIABLES
  fs,      \* the FileWriteStream object: indent, depth, stack, file
  ms,      \* the MemoryWriteStream object: state, value, key, and the heap
  call,    \* the last call made by the caller
  fexc,    \* how the last call ended on the FileWriteStream
  mexc,    \* how the last call ended on the MemoryWriteStream
  fpre,    \* the FileWriteStream before the last call
  mpre,    \* the MemoryWriteStream before the last call
  wraps,   \* the wrap_array / wrap_object blocks the caller is inside
  ncalls,  \* number of calls made so far
  told,    \* what the calls so far describe, when the caller keeps to
           \* the legal calls
  sel_stack, \* SelectorTransformer._stack
  parse,   \* the parser's stack of open arrays and objects
  pc,      \* what the parser reduces next
  cur,     \* the value of the last reduction
  calls,   \* the invocations of the value callback, in order
  nodes,   \* the paths of the value nodes reduced so far, in order
  doc,     \* the tokens of the document read so far in this pass
  cb,      \* the class of the transformer, which fixes its value method
  passes,  \* number of passes started on the transformer instance
  cin,     \* the object handed to the numeric codec
  cout,    \* what the codec's last step returned or raised
  cop,     \* the codec step made last
  py       \* the interpreter the codec runs on

wvars == <<fs, ms, call, fexc, mexc, fpre, mpre, wraps, ncalls, told>>
svars == <<sel_stack, parse, pc, cur, calls, nodes, doc, cb, passes>>
cvars == <<cin, cout, cop, py>>
vars == <<fs, ms, call, fexc, mexc, fpre, mpre, wraps, ncalls, told,
          sel_stack, parse, pc, cur, calls, nodes, doc, cb, passes,
          cin, cout, cop, py>>

\* Bound on the length of a sequence of legal calls.
MaxLegalCalls == 7

\* Bound on the length of a call sequence.
MaxCalls == 4

\* ---------------------------------------------------------------- StreamState
predoc    == "predoc"
postdoc   == "postdoc"
in_array  == "in_array"
in_object == "in_object"
in_pair   == "in_pair"
post_pair == "post_pair"
post_elem == "post_elem"

StreamState ==
  {predoc, postdoc, in_array, in_object, in_pair, post_pair, post_elem}

\* ---------------------------------------------------------------- inputs
\* indent argument of FileWriteStream: the default and the one __main__ uses.
Indents == {0, 2}
Keys == {"a", "b"}
\* Values handed to write_value: an int and a complex number.
Values == {"1", "1j"}
\* cls argument: no encoder, or the package's NumericEncoder.
Encoders == {"None", "NumericEncoder"}

\* ---------------------------------------------------------------- helpers
Ok(s) == [s |-> s, exc |-> "none"]
Raise(s, e) == [s |-> s, exc |-> e]

Top(st) == st[Len(st)]
SetTop(st, x) == [st EXCEPT ![Len(st)] = x]
Pop(st) == SubSeq(st, 1, Len(st) - 1)

\* ' ' * n (the empty string when n <= 0)
Spaces(n) == [i \in 1..n |-> " "]

\* s.replace('\n', '\n' + pad) on a text held as a sequence of tokens
RECURSIVE Replace(_, _)
Replace(s, pad) ==
  IF s = <<>> THEN <<>>
  ELSE IF Head(s) = "\n" THEN <<"\n">> \o pad \o Replace(Tail(s), pad)
  ELSE <<Head(s)>> \o Replace(Tail(s), pad)

\* NumericEncoder.default(obj): a complex number becomes the pair of its
\* parts; anything else goes to JSONEncoder.default, which raises TypeError.
NumericEncoder_default(obj) ==
  IF obj = "1j" THEN [exc |-> "none", val |-> "OrderedDict(real=0.0,imag=1.0)"]
  ELSE [exc |-> "TypeError", val |-> obj]

\* json.dumps(obj, cls=cls, indent=indent) as [exc, text].
dumps(obj, cls, indent) ==
  CASE obj = "None" -> [exc |-> "none", text |-> <<"null">>]
    [] obj = "1"    -> [exc |-> "none", text |-> <<"1">>]
    [] obj = "1j" /\ cls = "None" -> [exc |-> "TypeError", text |-> <<>>]
    [] OTHER ->
         [exc |-> "none",
          text |-> <<"{", "\n">> \o Spaces(indent)
                   \o <<"\"real\"", ": ", "0.0", ",", "\n">> \o Spaces(indent)
                   \o <<"\"imag\"", ": ", "1.0", "\n", "}">>]

\* json.dumps(key) for a string key
dumps_key(key) == IF key = "a" THEN "\"a\"" ELSE "\"b\""

\* ================================================================
\* FileWriteStream
\* ================================================================
File_init(indent) ==
  [indent |-> indent, depth |-> 0, stack |-> <<predoc>>, file |-> <<>>]

\* self.file.write(text)
File_write(f, text) == [f EXCEPT !.file = @ \o text]

\* ' '*(self.depth * self.indent)
File_pad(f) == Spaces(f.depth * f.indent)

File_enter_array(f) ==
  IF f.stack = <<>> THEN Raise(f, "IndexError")
  ELSE
    LET prev == Top(f.stack)
        f1 == IF prev = post_pair \/ prev = post_elem
                THEN File_write(f, <<",", "\n">> \o File_pad(f))
              ELSE IF prev # in_pair
                THEN File_write(f, <<"\n">> \o File_pad(f))
              ELSE f
        f2 == File_write(f1, <<"[">>)
    IN Ok([f2 EXCEPT !.depth = @ + 1, !.stack = Append(@, in_array)])

File__post_value(f) ==
  IF f.stack = <<>> THEN Raise(f, "IndexError")
  ELSE
    LET f1 == IF Top(f.stack) = in_pair
                THEN [f EXCEPT !.stack = SetTop(@, post_pair)] ELSE f
        f2 == IF Top(f1.stack) = predoc
                THEN [f1 EXCEPT !.stack = SetTop(@, postdoc)] ELSE f1
        f3 == IF Top(f2.stack) = in_array
                THEN [f2 EXCEPT !.stack = SetTop(@, post_elem)] ELSE f2
    IN Ok(f3)

\* exit_array without `self.depth -= 1`
RECURSIVE File_exit_array_keeps_depth(_)
File_exit_array_keeps_depth(f) ==
  IF f.stack = <<>> THEN Raise(f, "IndexError")
  ELSE IF Top(f.stack) = post_elem
    THEN File_exit_array_keeps_depth(
           File_write([f EXCEPT !.stack = SetTop(@, in_array)], <<"\n">>))
  ELSE IF Top(f.stack) # in_array THEN Raise(f, "RuntimeError")
  ELSE
    LET f1 == [f EXCEPT !.stack = Pop(@)]
        f2 == File_write(f1, File_pad(f1) \o <<"]">>)
    IN File__post_value(f2)

RECURSIVE File_exit_array(_)
File_exit_array(f) ==
  IF f.stack = <<>> THEN Raise(f, "IndexError")
  ELSE IF Top(f.stack) = post_elem
    THEN File_exit_array(
           File_write([f EXCEPT !.stack = SetTop(@, in_array)], <<"\n">>))
  ELSE IF Top(f.stack) # in_array THEN Raise(f, "RuntimeError")
  ELSE
    LET f1 == [f EXCEPT !.stack = Pop(@), !.depth = @ - 1]
        f2 == File_write(f1, File_pad(f1) \o <<"]">>)
    IN File__post_value(f2)

File_enter_object(f) ==
  IF f.stack = <<>> THEN Raise(f, "IndexError")
  ELSE
    LET prev == Top(f.stack)
        f1 == IF prev = in_pair THEN f
              ELSE IF prev = predoc THEN File_write(f, File_pad(f))
              ELSE IF prev = post_pair \/ prev = post_elem
                THEN File_write(f, <<",", "\n">> \o File_pad(f))
              ELSE File_write(f, <<"\n">> \o File_pad(f))
        f2 == File_write(f1, <<"{", "\n">>)
    IN Ok([f2 EXCEPT !.depth = @ + 1, !.stack = Append(@, in_object)])

RECURSIVE File_exit_object(_)
File_exit_object(f) ==
  IF f.stack = <<>> THEN Raise(f, "IndexError")
  ELSE IF Top(f.stack) = post_pair
    THEN File_exit_object(
           File_write([f EXCEPT !.stack = SetTop(@, in_object)], <<"\n">>))
  ELSE IF Top(f.stack) # in_object THEN Raise(f, "RuntimeError")
  ELSE
    LET f1 == [f EXCEPT !.stack = Pop(@), !.depth = @ - 1]
        f2 == File_write(f1, File_pad(f1) \o <<"}">>)
    IN File__post_value(f2)

\* write_key without its check of the top state
File_write_key_unchecked(f, key) ==
  IF f.stack = <<>> THEN Raise(f, "IndexError")
  ELSE
    LET f1 == IF Top(f.stack) = post_pair
                THEN File_write(f, <<",", "\n">>) ELSE f
        f2 == File_write(f1, File_pad(f1) \o <<dumps_key(key), ": ">>)
    IN Ok([f2 EXCEPT !.stack = SetTop(@, in_pair)])

File_write_key(f, key) ==
  IF f.stack = <<>> THEN Raise(f, "IndexError")
  ELSE IF Top(f.stack) # post_pair /\ Top(f.stack) # in_object
    THEN Raise(f, "RuntimeError")
  ELSE
    LET f1 == IF Top(f.stack) = post_pair
                THEN File_write(f, <<",", "\n">>) ELSE f
        f2 == File_write(f1, File_pad(f1) \o <<dumps_key(key), ": ">>)
    IN Ok([f2 EXCEPT !.stack = SetTop(@, in_pair)])

\* s = json.dumps(obj, cls=cls, indent=self.indent);
\* self.file.write(s.replace(...)); self.stack[-1] = next
File_dump_value(f, obj, cls, next) ==
  LET d == dumps(obj, cls, f.indent)
  IN IF d.exc # "none" THEN Raise(f, d.exc)
     ELSE Ok([File_write(f, Replace(d.text, File_pad(f)))
                EXCEPT !.stack = SetTop(@, next)])

RECURSIVE File_write_value(_, _, _)
File_write_value(f, obj, cls) ==
  IF f.stack = <<>> THEN Raise(f, "IndexError")
  ELSE IF Top(f.stack) = in_object THEN Raise(f, "RuntimeError")
  ELSE IF Top(f.stack) = in_array
    THEN File_dump_value(File_write(f, <<"\n">> \o File_pad(f)),
                         obj, cls, post_elem)
  ELSE IF Top(f.stack) = post_elem
    THEN File_write_value(
           [File_write(f, <<",">>) EXCEPT !.stack = SetTop(@, in_array)],
           obj, cls)
  ELSE IF Top(f.stack) = in_pair THEN File_dump_value(f, obj, cls, post_pair)
  ELSE IF Top(f.stack) = predoc THEN File_dump_value(f, obj, cls, post_pair)
  ELSE Raise(f, "RuntimeError")

\* The loop condition reads self.predoc, an attribute no FileWriteStream
\* has: evaluating it raises AttributeError (IndexError on an empty stack,
\* whose [-1] is evaluated first), so the loop body never runs.
File_unwind(f) ==
  IF f.stack = <<>> THEN Raise(f, "IndexError")
  ELSE Raise(f, "AttributeError")

\* write_pair without the except clause that writes None
File_write_pair_no_recovery(f, key, value, cls) ==
  LET k == File_write_key(f, key)
  IN IF k.exc # "none" THEN k ELSE File_write_value(k.s, value, cls)

\* WriteStream.write_pair on a FileWriteStream
File_write_pair(f, key, value, cls) ==
  LET k == File_write_key(f, key)
  IN IF k.exc # "none" THEN k
     ELSE LET v == File_write_value(k.s, value, cls)
          IN IF v.exc = "none" THEN v
             ELSE LET n == File_write_value(v.s, "None", "None")
                  IN IF n.exc # "none" THEN n ELSE Raise(n.s, v.exc)

\* ================================================================
\* MemoryWriteStream
\* ================================================================
\* A Python value held by the stream: a reference to a list or dict of the
\* heap (ref > 0), or any other object, named by s (ref = 0).
Scalar(x) == [ref |-> 0, s |-> x]
Ref(id) == [ref |-> id, s |-> ""]

\* Heap objects: lists hold items with k = "", dicts hold items with a key.
EmptyList == [kind |-> "list", items |-> <<>>]
EmptyDict == [kind |-> "dict", items |-> <<>>]

\* self.state = [predoc]; self.value = [[]]; self.key is not yet set.
Memory_init ==
  [state |-> <<predoc>>, value |-> <<1>>, key |-> "unset",
   heap |-> <<EmptyList>>]

\* self.value[-1].append(v)
list_append(m, v) ==
  [m EXCEPT !.heap[Top(m.value)].items = Append(@, [k |-> "", v |-> v])]

\* self.value[-1].update({key: v}): an existing key keeps its place
dict_update(m, key, v) ==
  LET items == m.heap[Top(m.value)].items
      hit == {i \in 1..Len(items) : items[i].k = key}
  IN IF hit = {}
       THEN [m EXCEPT !.heap[Top(m.value)].items =
                         Append(@, [k |-> key, v |-> v])]
       ELSE [m EXCEPT !.heap[Top(m.value)].items =
                         [i \in 1..Len(items) |->
                            IF i \in hit THEN [k |-> key, v |-> v]
                            ELSE items[i]]]

\* The part of write_value after the encoder has been applied.
Memory_store_value(m, v) ==
  IF m.state = <<>> THEN Raise(m, "IndexError")
  ELSE
    LET prev_state == Top(m.state)
    IN IF prev_state = in_array \/ prev_state = post_elem
          \/ prev_state = predoc \/ prev_state = postdoc
         THEN Ok([list_append(m, v) EXCEPT !.state = SetTop(@, post_elem)])
       ELSE IF prev_state = in_pair
         THEN IF m.key = "unset" THEN Raise(m, "AttributeError")
              ELSE Ok([dict_update(m, m.key, v)
                         EXCEPT !.state = SetTop(@, post_pair)])
       ELSE IF prev_state = predoc
         THEN Ok([list_append(m, v) EXCEPT !.state = SetTop(@, postdoc)])
       ELSE Raise(m, "ValueError")

Memory_write_value(m, value, cls) ==
  IF cls # "None"
    THEN LET e == NumericEncoder_default(value)
         IN IF e.exc # "none" THEN Raise(m, e.exc)
            ELSE Memory_store_value(m, Scalar(e.val))
    ELSE Memory_store_value(m, Scalar(value))

\* value = [] (or {}), pushed but never written into the parent
Memory_enter_detached(m, empty, st) ==
  LET id == Len(m.heap) + 1
  IN IF m.state = <<>> THEN Raise(m, "IndexError")
     ELSE Ok([m EXCEPT !.heap = Append(@, empty),
                       !.state = Append(SetTop(@, IF Top(@) = in_pair
                                                  THEN post_pair
                                                  ELSE post_elem), st),
                       !.value = Append(@, id)])

\* value = [] (or {}); self.write_value(value); push the state and the value
Memory_enter(m, empty, st) ==
  LET id == Len(m.heap) + 1
      w == Memory_store_value([m EXCEPT !.heap = Append(@, empty)], Ref(id))
  IN IF w.exc # "none" THEN Raise(m, w.exc)
     ELSE Ok([w.s EXCEPT !.state = Append(@, st), !.value = Append(@, id)])

Memory_enter_array(m) == Memory_enter(m, EmptyList, in_array)

Memory_enter_object(m) == Memory_enter(m, EmptyDict, in_object)

Memory_exit_array(m) ==
  IF m.state = <<>> THEN Raise(m, "IndexError")
  ELSE IF Top(m.state) # post_elem /\ Top(m.state) # in_array
    THEN Raise(m, "ValueError")
  ELSE Ok([m EXCEPT !.state = Pop(@), !.value = Pop(@)])

Memory_exit_object(m) ==
  IF m.state = <<>> THEN Raise(m, "IndexError")
  ELSE IF Top(m.state) # post_pair /\ Top(m.state) # in_object
    THEN Raise(m, "ValueError")
  ELSE Ok([m EXCEPT !.state = Pop(@), !.value = Pop(@)])

Memory_write_key(m, key) ==
  IF m.state = <<>> THEN Raise(m, "IndexError")
  ELSE IF Top(m.state) # post_pair /\ Top(m.state) # in_object
    THEN Raise(m, "ValueError")
  ELSE Ok([m EXCEPT !.key = key, !.state = SetTop(@, in_pair)])

Memory_unwind(m) ==
  IF m.state = <<>> THEN Raise(m, "IndexError")
  ELSE IF Top(m.state) = predoc THEN Ok(m)
  ELSE Ok([m EXCEPT !.state = <<postdoc>>, !.value = <<m.value[1]>>])

\* WriteStream.write_pair on a MemoryWriteStream
Memory_write_pair(m, key, value, cls) ==
  LET k == Memory_write_key(m, key)
  IN IF k.exc # "none" THEN k
     ELSE LET v == Memory_write_value(k.s, value, cls)
          IN IF v.exc = "none" THEN v
             ELSE LET n == Memory_write_value(v.s, "None", "None")
                  IN IF n.exc # "none" THEN n ELSE Raise(n.s, v.exc)

\* The value built: the tree below heap object id, references followed.
RECURSIVE Tree(_, _)
Tree(heap, v) ==
  IF v.ref = 0 THEN v.s
  ELSE [kind |-> heap[v.ref].kind,
        items |-> [i \in 1..Len(heap[v.ref].items) |->
                     [k |-> heap[v.ref].items[i].k,
                      v |-> Tree(heap, heap[v.ref].items[i].v)]]]

\* The value built below v, scalars and containers alike as nodes
RECURSIVE Built(_, _)
Built(heap, v) ==
  IF v.ref = 0 THEN [kind |-> "scalar", s |-> v.s, items |-> <<>>]
  ELSE [kind |-> heap[v.ref].kind, s |-> "",
        items |-> [i \in 1..Len(heap[v.ref].items) |->
                     [k |-> heap[v.ref].items[i].k,
                      v |-> Built(heap, heap[v.ref].items[i].v)]]]

\* ================================================================
\* The caller: one action per writer method
\* ================================================================
NoFrame ==
  [kind |-> "", fin |-> FALSE, min |-> FALSE, fbase |-> 0, mbase |-> 0,
   fok |-> FALSE, mok |-> FALSE]

TheCall(op, key, value, cls) ==
  [op |-> op, key |-> key, value |-> value, cls |-> cls, body |-> "",
   frame |-> NoFrame]

\* A wrap block stays the caller's innermost open scope for as long as no
\* call has taken the stack down to the length it had before the block.
Watch(w, f, m) ==
  [i \in 1..Len(w) |->
     [w[i] EXCEPT !.fok = @ /\ Len(f.stack) > w[i].fbase,
                  !.mok = @ /\ Len(m.state) > w[i].mbase]]

\* ----------------------------------------------------------------
\* The document a caller describes who makes legal calls only: a stack of
\* the containers entered and not yet left, each with the items written
\* into it so far and, for an object, the key written last and not yet
\* given its value.  The bottom frame stands for the document.
\* ----------------------------------------------------------------
Frame(kind) == [kind |-> kind, items |-> <<>>, key |-> ""]
ScalarNode(x) == [kind |-> "scalar", s |-> x, items |-> <<>>]
ContainerNode(kind, items) == [kind |-> kind, s |-> "", items |-> items]

\* A caller who does not keep to the legal calls describes nothing
Untold == [on |-> FALSE, frames |-> <<>>]
NothingTold == [on |-> TRUE, frames |-> <<Frame("root")>>]

\* The value a write_value call passes on: obj, or cls().default(obj)
Written(c) ==
  IF c.cls = "None" THEN c.value ELSE NumericEncoder_default(c.value).val

\* Whether call c is legal after the calls so far
Legal(t, c) ==
  LET top == Top(t.frames)
      at_value == \/ top.kind = "root" /\ top.items = <<>>
                  \/ top.kind = "list"
                  \/ top.kind = "dict" /\ top.key # ""
  IN \/ c.op \in {"enter_array", "enter_object"} /\ at_value
     \/ /\ c.op = "write_value"
        /\ at_value
        /\ c.cls = "None" \/ NumericEncoder_default(c.value).exc = "none"
     \/ c.op = "write_key" /\ top.kind = "dict" /\ top.key = ""
     \/ c.op = "exit_array" /\ top.kind = "list"
     \/ c.op = "exit_object" /\ top.kind = "dict" /\ top.key = ""

\* items with v at key k: a key written again keeps its place
Put(items, k, v) ==
  IF \E i \in 1..Len(items) : items[i].k = k
  THEN [i \in 1..Len(items) |->
          IF items[i].k = k THEN [k |-> k, v |-> v] ELSE items[i]]
  ELSE Append(items, [k |-> k, v |-> v])

\* frame after value v is written into it
Hold(frame, v) ==
  IF frame.kind = "dict"
  THEN [frame EXCEPT !.items = Put(@, frame.key, v), !.key = ""]
  ELSE [frame EXCEPT !.items = Append(@, [k |-> "", v |-> v])]

\* What is described after the legal call c
Told(t, c) ==
  IF ~t.on THEN t
  ELSE LET fr == t.frames
           top == Top(fr)
       IN [t EXCEPT !.frames =
            IF c.op = "enter_array" THEN Append(fr, Frame("list"))
            ELSE IF c.op = "enter_object" THEN Append(fr, Frame("dict"))
            ELSE IF c.op = "write_key"
              THEN SetTop(fr, [top EXCEPT !.key = c.key])
            ELSE IF c.op = "write_value"
              THEN SetTop(fr, Hold(top, ScalarNode(Written(c))))
            ELSE SetTop(Pop(fr),
                        Hold(Top(Pop(fr)),
                             ContainerNode(top.kind, top.items)))]

\* The bound on the calls of the caller
Limit == IF told.on THEN MaxLegalCalls ELSE MaxCalls

\* One call, made on both streams; fr and mr are what it did to each.
Step(c, fr, mr, w) ==
  /\ ncalls < Limit
  /\ told.on => Legal(told, c)
  /\ told' = Told(told, c)
  /\ ncalls' = ncalls + 1
  /\ call' = c
  /\ fpre' = fs
  /\ mpre' = ms
  /\ fs' = fr.s
  /\ ms' = mr.s
  /\ fexc' = fr.exc
  /\ mexc' = mr.exc
  /\ wraps' = Watch(w, fr.s, mr.s)
  /\ UNCHANGED svars
  /\ UNCHANGED cvars

enter_array ==
  Step(TheCall("enter_array", "", "", ""),
       File_enter_array(fs), Memory_enter_array(ms), wraps)

exit_array ==
  Step(TheCall("exit_array", "", "", ""),
       File_exit_array(fs), Memory_exit_array(ms), wraps)

enter_object ==
  Step(TheCall("enter_object", "", "", ""),
       File_enter_object(fs), Memory_enter_object(ms), wraps)

exit_object ==
  Step(TheCall("exit_object", "", "", ""),
       File_exit_object(fs), Memory_exit_object(ms), wraps)

write_key ==
  \E key \in Keys :
    Step(TheCall("write_key", key, "", ""),
         File_write_key(fs, key), Memory_write_key(ms, key), wraps)

write_value ==
  \E value \in Values, cls \in Encoders :
    Step(TheCall("write_value", "", value, cls),
         File_write_value(fs, value, cls), Memory_write_value(ms, value, cls),
         wraps)

write_pair ==
  \E key \in Keys, value \in Values, cls \in Encoders :
    Step(TheCall("write_pair", key, value, cls),
         File_write_pair(fs, key, value, cls),
         Memory_write_pair(ms, key, value, cls), wraps)

unwind ==
  Step(TheCall("unwind", "", "", ""),
       File_unwind(fs), Memory_unwind(ms), wraps)

\* with stream.wrap_array(): / with stream.wrap_object(): the enter call.
\* The body is entered on the streams whose enter call returned.
wrap_enter(kind) ==
  LET fr == IF kind = "array" THEN File_enter_array(fs)
            ELSE File_enter_object(fs)
      mr == IF kind = "array" THEN Memory_enter_array(ms)
            ELSE Memory_enter_object(ms)
      fr_in == fr.exc = "none"
      mr_in == mr.exc = "none"
      frame == [kind |-> kind, fin |-> fr_in, min |-> mr_in,
                fbase |-> Len(fs.stack), mbase |-> Len(ms.state),
                fok |-> TRUE, mok |-> TRUE]
  IN Step([TheCall("wrap_enter", "", "", "") EXCEPT !.frame = frame],
          fr, mr,
          IF fr_in \/ mr_in THEN Append(wraps, frame) ELSE wraps)

wrap_array == wrap_enter("array")

wrap_object == wrap_enter("object")

\* The finally clause of a wrap block: the body has completed (body = "none")
\* or has raised (body = "BodyError"); the matching exit call runs, and an
\* exception it raises replaces the body's.
Finally(r, body) ==
  IF r.exc # "none" THEN r
  ELSE IF body # "none" THEN Raise(r.s, body)
  ELSE r

wrap_exit ==
  /\ wraps # <<>>
  /\ \E body \in {"none", "BodyError"} :
       LET frame == Top(wraps)
           fr == IF ~frame.fin THEN Raise(fs, "nocall")
                 ELSE IF frame.kind = "array"
                   THEN Finally(File_exit_array(fs), body)
                 ELSE Finally(File_exit_object(fs), body)
           mr == IF ~frame.min THEN Raise(ms, "nocall")
                 ELSE IF frame.kind = "array"
                   THEN Finally(Memory_exit_array(ms), body)
                 ELSE Finally(Memory_exit_object(ms), body)
       IN Step([TheCall("wrap_exit", "", "", "")
                  EXCEPT !.body = body, !.frame = frame],
               fr, mr, Pop(wraps))

WriterInit ==
  /\ \E indent \in Indents : fs = File_init(indent)
  /\ ms = Memory_init
  /\ call = TheCall("init", "", "", "")
  /\ fexc = "none"
  /\ mexc = "none"
  /\ fpre = fs
  /\ mpre = ms
  /\ wraps = <<>>
  /\ ncalls = 0

\* ================================================================
\* Coding.py: NumericEncoder and NumericDecoder
\* ================================================================
\* Bounds on the arrays: the number of axes and the extent of an axis.
MaxRank == 2
MaxExtent == 2

\* Python values.  A float is named by an integer n (standing for n.0).
PyNone == [t |-> "None", v |-> 0]
PyFloat(n) == [t |-> "float", v |-> n]
PyInt(n) == [t |-> "int", v |-> n]
PyStr(s) == [t |-> "str", str |-> s]
PyList(xs) == [t |-> "list", elems |-> xs]
\* a dict is a function from its keys to their values
PyDict(f) == [t |-> "dict", fields |-> f]
PyComplex(re, im) == [t |-> "complex", re |-> re, im |-> im]
\* data is the flat row-major sequence of the elements: n for a float64
\* element, <<re, im>> for a complex128 element
NDArray(dtype, shape, data) ==
  [t |-> "ndarray", dtype |-> dtype, shape |-> shape, data |-> data]

\* OrderedDict([(k1, v1), (k2, v2)])
OrderedDict(k1, v1, k2, v2) ==
  PyDict([k \in {k1, k2} |-> IF k = k1 THEN v1 ELSE v2])

\* d after d.pop(k)
dict_pop(f, k) == [x \in DOMAIN f \ {k} |-> f[x]]

RECURSIVE Product(_)
Product(shape) ==
  IF shape = <<>> THEN 1 ELSE Head(shape) * Product(Tail(shape))

\* obj.view(dtype=np.float64) of a complex128 array: every element becomes
\* its real and its imaginary part, the last axis doubles
RECURSIVE Interleave(_)
Interleave(data) ==
  IF data = <<>> THEN <<>>
  ELSE <<Head(data)[1], Head(data)[2]>> \o Interleave(Tail(data))

view_float64(a) ==
  NDArray("float64",
          [a.shape EXCEPT ![Len(a.shape)] = 2 * @],
          Interleave(a.data))

\* a.view(dtype=np.complex128) of a float64 array: consecutive floats are
\* paired, the last axis halves
RECURSIVE PairUp(_)
PairUp(data) ==
  IF Len(data) < 2 THEN <<>>
  ELSE <<(<<data[1], data[2]>>)>> \o PairUp(Tail(Tail(data)))

view_complex128(a) ==
  IF a.shape = <<>> \/ a.shape[Len(a.shape)] % 2 # 0
  THEN Raise(PyNone, "ValueError")
  ELSE Ok(NDArray("complex128",
                  [a.shape EXCEPT ![Len(a.shape)] = @ \div 2],
                  PairUp(a.data)))

\* a.tolist() of a float64 array: lists nested by the shape, row-major
RECURSIVE tolist(_, _)
tolist(shape, data) ==
  IF shape = <<>> THEN PyFloat(data[1])
  ELSE LET chunk == Product(Tail(shape))
       IN PyList([i \in 1..Head(shape) |->
                    tolist(Tail(shape),
                           SubSeq(data, (i - 1) * chunk + 1, i * chunk))])

\* np.array(x, dtype) of nested lists of floats: the shape is read off the
\* nesting (an empty list ends it), the elements are taken row-major
RECURSIVE ShapeOf(_)
ShapeOf(x) ==
  IF x.t # "list" THEN <<>>
  ELSE IF x.elems = <<>> THEN <<0>>
  ELSE <<Len(x.elems)>> \o ShapeOf(x.elems[1])

RECURSIVE Flatten(_)
RECURSIVE FlattenAll(_)
Flatten(x) == IF x.t # "list" THEN <<x.v>> ELSE FlattenAll(x.elems)
FlattenAll(xs) ==
  IF xs = <<>> THEN <<>> ELSE Flatten(Head(xs)) \o FlattenAll(Tail(xs))

np_array(x, dtype) == NDArray(dtype, ShapeOf(x), Flatten(x))

\* np.dtype(x): the type tags numpy knows, of those in use here
np_dtype(x) ==
  IF x.t = "str" /\ x.str \in {"float64", "complex128"} THEN Ok(x.str)
  ELSE Raise(PyNone, "TypeError")

\* NumericEncoder.default(obj)
Encoder_default(obj) ==
  IF obj.t = "complex" THEN
    Ok(OrderedDict("real", PyFloat(obj.re), "imag", PyFloat(obj.im)))
  ELSE IF obj.t = "ndarray" THEN
    LET data == IF obj.dtype = "complex128" THEN view_float64(obj) ELSE obj
    IN Ok(OrderedDict("dtype", PyStr(obj.dtype),
                      "array", tolist(data.shape, data.data)))
  ELSE Raise(PyNone, "TypeError")

\* NumericDecoder.dict_to_object(d), d a dict.  real and imag are popped
\* before their types are looked at.
dict_to_object(d) ==
  LET f == d.fields
      isc == "real" \in DOMAIN f /\ "imag" \in DOMAIN f
      f2 == IF isc THEN dict_pop(dict_pop(f, "real"), "imag") ELSE f
  IN IF isc /\ f["real"].t = "float" /\ f["imag"].t = "float"
     THEN Ok(PyComplex(f["real"].v, f["imag"].v))
     ELSE IF "dtype" \in DOMAIN f2 /\ "array" \in DOMAIN f2 THEN
       LET dtype == np_dtype(f2["dtype"])
           array == f2["array"]
       IN IF dtype.exc # "none" THEN dtype
          ELSE IF dtype.s = "complex128"
          THEN view_complex128(np_array(array, "float64"))
          ELSE Ok(np_array(array, dtype.s))
     ELSE Ok(PyDict(f2))

\* json.dumps writes a float with a fraction or exponent and an int
\* without; json.loads reads a number with either as a float, else as an
\* int.  Lists and dicts are written and read member by member.
RECURSIVE json_dumps(_)
json_dumps(x) ==
  IF x.t = "float" THEN [t |-> "number", frac |-> TRUE, v |-> x.v]
  ELSE IF x.t = "int" THEN [t |-> "number", frac |-> FALSE, v |-> x.v]
  ELSE IF x.t = "str" THEN [t |-> "string", str |-> x.str]
  ELSE IF x.t = "list" THEN
    [t |-> "array",
     elems |-> [i \in 1..Len(x.elems) |-> json_dumps(x.elems[i])]]
  ELSE [t |-> "object",
        fields |-> [k \in DOMAIN x.fields |-> json_dumps(x.fields[k])]]

\* json.loads without a hook
RECURSIVE json_loads(_)
json_loads(j) ==
  IF j.t = "number" THEN (IF j.frac THEN PyFloat(j.v) ELSE PyInt(j.v))
  ELSE IF j.t = "string" THEN PyStr(j.str)
  ELSE IF j.t = "array" THEN
    PyList([i \in 1..Len(j.elems) |-> json_loads(j.elems[i])])
  ELSE PyDict([k \in DOMAIN j.fields |-> json_loads(j.fields[k])])

\* The objects handed to the codec
Floats == {0, 1, 2}
Complexes == {PyComplex(re, im) : re \in Floats, im \in Floats}
Shapes == UNION {[1..n -> 0..MaxExtent] : n \in 1..MaxRank}
\* Arrays whose elements all differ: first, first + 1, ...
Iota(dtype, shape, first) ==
  NDArray(dtype, shape,
          [i \in 1..Product(shape) |->
             IF dtype = "float64" THEN first + i - 1
             ELSE <<first + 2 * i - 2, first + 2 * i - 1>>])
Arrays ==
  {Iota(dtype, shape, first) :
     dtype \in {"float64", "complex128"}, shape \in Shapes,
     first \in {0, 10}}
\* Objects as json.loads hands them to the hook
Fields == {"real", "imag", "dtype", "x"}
FieldValues == {PyFloat(1), PyInt(1), PyStr("s")}
Dicts ==
  UNION {{PyDict(f) : f \in [S -> FieldValues]} : S \in SUBSET Fields}

CodecUnchanged == UNCHANGED <<wvars, svars, py>>

\* Coding.py is written for Python 2 (print statements); the rest of the
\* package runs on Python 3.
Pythons == {"python2", "python3"}

\* NumericDecoder.__init__(self, encoding=None): passes encoding to
\* json.JSONDecoder.__init__ by position, which Python 2 accepts and
\* Python 3, where the parameters are keyword-only, rejects.
NumericDecoder_init(interp) ==
  IF interp = "python3" THEN Raise(PyNone, "TypeError") ELSE Ok(PyNone)

\* json.loads(s, cls=NumericDecoder) of a text that holds one object, j
\* being what was written: the decoder is constructed, the text is read,
\* and the hook is run on the object read.
loads_NumericDecoder(interp, j) ==
  LET made == NumericDecoder_init(interp)
  IN IF made.exc # "none" THEN made
     ELSE dict_to_object(json_loads(j))

\* json.dumps(obj, cls=NumericEncoder) reaches default(obj)
encode ==
  /\ cop = "input"
  /\ cin.t \in {"complex", "ndarray"}
  /\ cout' = Encoder_default(cin)
  /\ cop' = "encoded"
  /\ UNCHANGED cin
  /\ CodecUnchanged

\* json.loads(s, cls=NumericDecoder) of the text written for the encoded
\* object
decode ==
  /\ cop = "encoded"
  /\ cout.exc = "none"
  /\ cout' = loads_NumericDecoder(py, json_dumps(cout.s))
  /\ cop' = "decoded"
  /\ UNCHANGED cin
  /\ CodecUnchanged

\* json.loads(s, cls=NumericDecoder) of a hand-written object
hook ==
  /\ cop = "input"
  /\ cin.t = "dict"
  /\ cout' = loads_NumericDecoder(py, json_dumps(cin))
  /\ cop' = "hooked"
  /\ UNCHANGED cin
  /\ CodecUnchanged

\* dict_to_object(d) called on a dict, without json.loads: on an instance
\* where one can be made, else as the plain function of the class (self is
\* not used)
call_dict_to_object ==
  /\ cop = "input"
  /\ cin.t = "dict"
  /\ cout' = dict_to_object(cin)
  /\ cop' = "called"
  /\ UNCHANGED cin
  /\ CodecUnchanged

\* An object is handed to the codec
CodecInput ==
  /\ py \in Pythons
  /\ cin \in Complexes \cup Arrays \cup Dicts
  /\ cout = Ok(PyNone)
  /\ cop = "input"

CodecNext ==
  \/ encode
  \/ decode
  \/ hook
  \/ call_dict_to_object

\* ================================================================
\* parser.py: SelectorTransformer driven by the LALR parser
\* ================================================================
\* Bound on the documents parsed: the number of value nodes of a document.
MaxNodes == 4

\* Bound on the passes run on one transformer instance.
MaxPasses == 2

SelKeys == {"a", "b"}

\* A path segment: an array position (k = "") or an object key (i = -1).
Index(i) == [k |-> "", i |-> i]
Key(k) == [k |-> k, i |-> -1]

\* Values: scalars have no items; the items of an array have k = "".
Leaf(t) == [t |-> t, items |-> <<>>]
Item(k, v) == [k |-> k, v |-> v]

\* dict(pairs): a repeated key keeps its first place and its last value
RECURSIVE dict(_)
dict(pairs) ==
  IF pairs = <<>> THEN <<>>
  ELSE LET init == dict(SubSeq(pairs, 1, Len(pairs) - 1))
           last == pairs[Len(pairs)]
           hit == {i \in 1..Len(init) : init[i].k = last.k}
       IN IF hit = {} THEN Append(init, last)
          ELSE [i \in 1..Len(init) |-> IF i \in hit THEN last ELSE init[i]]

\* PrintingTransformer.value(s, x): prints the selector and returns x
PrintingTransformer_value(s, x) == x

\* The callback bound to a CallbackSelectorTransformer: it either returns a
\* value of its own that holds x, or raises.
Seen(x) == [t |-> "seen", items |-> <<Item("", x)>>]
CallbackSelectorTransformer_value(s, x) == Seen(x)

Transformers == {"PrintingTransformer", "CallbackSelectorTransformer"}

\* self.value(s, x), by the class of self
SelectorTransformer_value(c, s, x) ==
  IF c = "PrintingTransformer" THEN PrintingTransformer_value(s, x)
  ELSE CallbackSelectorTransformer_value(s, x)

\* The path from the root to the value being reduced: for each open array
\* the number of elements reduced in it so far, for each open object the
\* key of the pair being read.
NodePath ==
  [i \in 1..Len(parse) |->
     IF parse[i].kind = "array" THEN Index(Len(parse[i].s))
     ELSE Key(parse[i].key)]

\* Value nodes read so far: those reduced and the open arrays and objects.
Started == Len(nodes) + Len(parse)

\* A value may start here: at the root, after a key, or in an open array.
AtValue ==
  /\ pc = "value" \/ pc = "array"
  /\ Started < MaxNodes

SelUnchanged == UNCHANGED <<wvars, cb, passes, cvars>>

\* The lexer's tokens.  A key or a string is the text between quotes.
Quoted(k) == "\"" \o k \o "\""

\* The "," the grammar requires before a further element or pair (none is
\* read between a key and its value)
Separator ==
  IF pc # "value" /\ parse # <<>> /\ Top(parse).s # <<>> THEN <<",">>
  ELSE <<>>

\* Lark(...).parse consumes the tokens toks next
Read(toks) == doc' = doc \o toks

\* value : SIGNED_NUMBER -> number.  The alternative is aliased: the node
\* reduced is a number, and the value rule's callback is not run for it.
Selector__number ==
  /\ AtValue
  /\ Read(Separator \o <<"1">>)
  /\ cur' = Leaf("number")
  /\ nodes' = Append(nodes, NodePath)
  /\ pc' = "complete"
  /\ UNCHANGED <<sel_stack, parse, calls>>
  /\ SelUnchanged

\* value : "null" -> null (and likewise true, false)
Selector__null ==
  /\ AtValue
  /\ Read(Separator \o <<"null">>)
  /\ cur' = Leaf("null")
  /\ nodes' = Append(nodes, NodePath)
  /\ pc' = "complete"
  /\ UNCHANGED <<sel_stack, parse, calls>>
  /\ SelUnchanged

\* string : ESCAPED_STRING, read as a value or as the key of a pair
Selector__string ==
  /\ \/ /\ AtValue
        /\ Read(Separator \o <<Quoted("s")>>)
        /\ cur' = Leaf("string")
        /\ pc' = "reduce_value"
     \/ /\ pc = "object"
        /\ Started < MaxNodes
        /\ \E k \in SelKeys :
              /\ Read(Separator \o <<Quoted(k)>>)
              /\ cur' = Leaf(k)
        /\ pc' = "reduce_key"
  /\ UNCHANGED <<sel_stack, parse, calls, nodes>>
  /\ SelUnchanged

\* start_array : "["
Selector__start_array ==
  /\ AtValue
  /\ Read(Separator \o <<"[">>)
  /\ sel_stack' = Append(sel_stack, Index(0))
  /\ parse' = Append(parse, [kind |-> "array", s |-> <<>>, key |-> ""])
  /\ pc' = "array"
  /\ UNCHANGED <<cur, calls, nodes>>
  /\ SelUnchanged

\* element : value
Selector__element ==
  /\ pc = "complete"
  /\ parse # <<>>
  /\ Top(parse).kind = "array"
  /\ sel_stack # <<>>
  /\ Top(sel_stack).k = ""
  /\ sel_stack' = SetTop(sel_stack, Index(Top(sel_stack).i + 1))
  /\ UNCHANGED doc
  /\ parse' = SetTop(parse, [Top(parse) EXCEPT !.s = Append(@, Item("", cur))])
  /\ pc' = "array"
  /\ UNCHANGED <<cur, calls, nodes>>
  /\ SelUnchanged

\* end_array : "]"
Selector__end_array ==
  /\ pc = "array"
  /\ sel_stack # <<>>
  /\ Read(<<"]">>)
  /\ sel_stack' = Pop(sel_stack)
  /\ pc' = "reduce_array"
  /\ UNCHANGED <<parse, cur, calls, nodes>>
  /\ SelUnchanged

\* array : start_array [element ("," element)*] end_array; returns s[1:-1]
Selector__array ==
  /\ pc = "reduce_array"
  /\ cur' = [t |-> "array", items |-> Top(parse).s]
  /\ UNCHANGED doc
  /\ parse' = Pop(parse)
  /\ pc' = "reduce_value"
  /\ UNCHANGED <<sel_stack, calls, nodes>>
  /\ SelUnchanged

\* "{" opens an object; no rule is reduced
open_object ==
  /\ AtValue
  /\ Read(Separator \o <<"{">>)
  /\ parse' = Append(parse, [kind |-> "object", s |-> <<>>, key |-> ""])
  /\ pc' = "object"
  /\ UNCHANGED <<sel_stack, cur, calls, nodes>>
  /\ SelUnchanged

\* key : string
Selector__key ==
  /\ pc = "reduce_key"
  /\ Read(<<":">>)
  /\ sel_stack' = Append(sel_stack, Key(cur.t))
  /\ parse' = SetTop(parse, [Top(parse) EXCEPT !.key = cur.t])
  /\ pc' = "value"
  /\ UNCHANGED <<cur, calls, nodes>>
  /\ SelUnchanged

\* pair : key ":" value
Selector__pair ==
  /\ pc = "complete"
  /\ parse # <<>>
  /\ Top(parse).kind = "object"
  /\ sel_stack # <<>>
  /\ sel_stack' = Pop(sel_stack)
  /\ UNCHANGED doc
  /\ parse' = SetTop(parse, [Top(parse) EXCEPT
                               !.s = Append(@, Item(Top(parse).key, cur)),
                               !.key = ""])
  /\ pc' = "object"
  /\ UNCHANGED <<cur, calls, nodes>>
  /\ SelUnchanged

\* object : "{" [pair ("," pair)*] "}"; _object = dict
Selector__object ==
  /\ pc = "object"
  /\ Read(<<"}">>)
  /\ cur' = [t |-> "object", items |-> dict(Top(parse).s)]
  /\ parse' = Pop(parse)
  /\ pc' = "reduce_value"
  /\ UNCHANGED <<sel_stack, calls, nodes>>
  /\ SelUnchanged

\* value : object | array | string; _value runs the callback on the path
\* stack and the reduced value
Selector__value ==
  /\ pc = "reduce_value"
  /\ calls' = Append(calls, [path |-> sel_stack, node |-> NodePath,
                             x |-> cur])
  /\ cur' = SelectorTransformer_value(cb, sel_stack, cur)
  /\ nodes' = Append(nodes, NodePath)
  /\ pc' = "complete"
  /\ UNCHANGED <<sel_stack, parse, doc>>
  /\ SelUnchanged

\* ?start : value.  The root value is reduced: the pass returns it.
finish ==
  /\ pc = "complete"
  /\ parse = <<>>
  /\ pc' = "done"
  /\ UNCHANGED <<sel_stack, parse, cur, calls, nodes, doc>>
  /\ SelUnchanged

\* ----------------------------------------------------------------
\* The tree of a whole document, by recursive descent over its tokens.
\* f names what is done to each value node once its children are built:
\* "DefaultTransformer" leaves it as it is (DefaultTransformer._value
\* returns s[0]: the plain parse), the name of a selector class applies
\* that class's value method.
\* ----------------------------------------------------------------
KeyOf(tok) == CHOOSE k \in SelKeys : Quoted(k) = tok

ValueNode(f, x) ==
  IF f = "DefaultTransformer" THEN x
  ELSE SelectorTransformer_value(f, <<>>, x)

RECURSIVE ParseValue(_, _, _)
RECURSIVE ParseItems(_, _, _, _, _)
\* value : object | array | string | SIGNED_NUMBER | "null", read at toks[i];
\* the result is the value and the index after it
ParseValue(toks, i, f) ==
  LET tok == toks[i]
  IN IF tok = "[" THEN
       LET r == ParseItems(toks, i + 1, f, "]", <<>>)
       IN [v |-> ValueNode(f, [t |-> "array", items |-> r.items]),
           i |-> r.i]
     ELSE IF tok = "{" THEN
       LET r == ParseItems(toks, i + 1, f, "}", <<>>)
       IN [v |-> ValueNode(f, [t |-> "object", items |-> dict(r.items)]),
           i |-> r.i]
     ELSE IF tok = "1" THEN [v |-> ValueNode(f, Leaf("number")), i |-> i + 1]
     ELSE IF tok = "null" THEN [v |-> ValueNode(f, Leaf("null")), i |-> i + 1]
     ELSE [v |-> ValueNode(f, Leaf("string")), i |-> i + 1]

\* [element ("," element)*] "]"  or  [pair ("," pair)*] "}"
ParseItems(toks, i, f, close, acc) ==
  IF toks[i] = close THEN [items |-> acc, i |-> i + 1]
  ELSE IF toks[i] = "," THEN ParseItems(toks, i + 1, f, close, acc)
  ELSE IF close = "]" THEN
    LET r == ParseValue(toks, i, f)
    IN ParseItems(toks, r.i, f, close, Append(acc, Item("", r.v)))
  ELSE
    LET r == ParseValue(toks, i + 2, f)
    IN ParseItems(toks, r.i, f, close, Append(acc, Item(KeyOf(toks[i]), r.v)))

\* DefaultTransformer().parser()(text)
PlainParse(toks) == ParseValue(toks, 1, "DefaultTransformer").v

\* The tree in which every value node is replaced, bottom-up, by what the
\* value method of class c returns for it
Replaced(toks, c) == ParseValue(toks, 1, c).v

\* The callback bound to a CallbackSelectorTransformer raises: the
\* exception leaves _value and Lark(...).parse, and the pass is over.
callback_raises ==
  /\ pc = "reduce_value"
  /\ cb = "CallbackSelectorTransformer"
  /\ calls' = Append(calls, [path |-> sel_stack, node |-> NodePath,
                             x |-> cur])
  /\ pc' = "aborted"
  /\ UNCHANGED <<sel_stack, parse, cur, nodes, doc>>
  /\ SelUnchanged

\* parser()(text) once more on the same instance: Lark(...).parse starts
\* afresh; nothing assigns self._stack.
parse_again ==
  /\ pc \in {"done", "aborted"}
  /\ passes < MaxPasses
  /\ passes' = passes + 1
  /\ parse' = <<>>
  /\ pc' = "value"
  /\ cur' = Leaf("")
  /\ calls' = <<>>
  /\ nodes' = <<>>
  /\ doc' = <<>>
  /\ UNCHANGED <<sel_stack, cb>>
  /\ UNCHANGED <<wvars, cvars>>

\* SelectorTransformer.__init__, and the start of parser()(text)
SelInit ==
  /\ sel_stack = <<>>
  /\ parse = <<>>
  /\ pc = "value"
  /\ cur = Leaf("")
  /\ calls = <<>>
  /\ nodes = <<>>
  /\ doc = <<>>
  /\ passes = 1

\* No object has been handed to the codec
CodecIdle ==
  /\ cin = PyNone
  /\ cout = Ok(PyNone)
  /\ cop = "none"
  /\ py = "python3"

Init ==
  /\ WriterInit
  /\ told = Untold
  /\ SelInit
  /\ cb = "PrintingTransformer"
  /\ CodecIdle

\* A transformer of either class, before its first pass
SelectorInit ==
  /\ WriterInit
  /\ told = Untold
  /\ fs.indent = 0
  /\ SelInit
  /\ CodecIdle
  /\ cb \in Transformers

Next ==
  \/ enter_array
  \/ exit_array
  \/ enter_object
  \/ exit_object
  \/ write_key
  \/ write_value
  \/ write_pair
  \/ unwind
  \/ wrap_array
  \/ wrap_object
  \/ wrap_exit

\* The writers, driven by every sequence of at most MaxCalls calls.
Spec == Init /\ [][Next]_vars

\* write_value of a value json.dumps encodes, without a codec
write_plain_value ==
  /\ write_value
  /\ call'.value = "1"
  /\ call'.cls = "None"

PlainNext ==
  \/ enter_array
  \/ exit_array
  \/ enter_object
  \/ exit_object
  \/ write_key
  \/ write_plain_value

\* The writers, driven by every sequence of at most MaxCalls of the six
\* plain calls.
PlainSpec == Init /\ [][PlainNext]_vars

LegalInit ==
  /\ WriterInit
  /\ fs.indent = 0
  /\ told = NothingTold
  /\ SelInit
  /\ cb = "PrintingTransformer"
  /\ CodecIdle

LegalNext ==
  \/ enter_array
  \/ exit_array
  \/ enter_object
  \/ exit_object
  \/ write_key
  \/ write_value

\* The writers, driven by every sequence of at most MaxLegalCalls legal
\* calls.
LegalSpec == LegalInit /\ [][LegalNext]_vars

SelNext ==
  \/ Selector__number
  \/ Selector__null
  \/ Selector__string
  \/ Selector__start_array
  \/ Selector__element
  \/ Selector__end_array
  \/ Selector__array
  \/ open_object
  \/ Selector__key
  \/ Selector__pair
  \/ Selector__object
  \/ Selector__value
  \/ finish

\* One pass of a PrintingTransformer over every document within the bounds.
SelSpec == Init /\ [][SelNext]_vars

\* The codec applied to every complex number, array and object within the
\* bounds: encode then decode, or the decoder's hook alone.
CodecInit ==
  /\ WriterInit
  /\ fs.indent = 0
  /\ told = Untold
  /\ SelInit
  /\ cb = "PrintingTransformer"
  /\ CodecInput

CodecSpec == CodecInit /\ [][CodecNext]_vars

PassNext ==
  \/ SelNext
  \/ callback_raises
  \/ parse_again

\* Up to MaxPasses passes of one transformer of either class, each over any
\* document within the bounds; a pass may be aborted by the callback.
PassSpec == SelectorInit /\ [][PassNext]_vars

\* ================================================================
\* Properties
\* ================================================================
\* Whether json.dumps(value, cls=cls) resp. cls().default(value) fails
FileEncodingFails(value, cls) == dumps(value, cls, 0).exc # "none"
MemoryEncodingFails(value, cls) ==
  cls # "None" /\ NumericEncoder_default(value).exc # "none"

\* The first token other than white space at or after / at or before i
RECURSIVE NextSolid(_, _)
NextSolid(s, i) ==
  IF i > Len(s) THEN ""
  ELSE IF s[i] \in {"\n", " "} THEN NextSolid(s, i + 1)
  ELSE s[i]

RECURSIVE PrevSolid(_, _)
PrevSolid(s, i) ==
  IF i < 1 THEN ""
  ELSE IF s[i] \in {"\n", " "} THEN PrevSolid(s, i - 1)
  ELSE s[i]

\* C1: after every call, returned or raised, the state stack of the text
\* back-end and of the in-memory back-end holds at least one entry.
C1_StackNeverEmpty ==
  /\ Len(fs.stack) >= 1
  /\ Len(ms.state) >= 1

\* C2: write_value, enter_array and enter_object called while the top state
\* is InObject, PostPair or PostDoc raise and emit / insert nothing, on both
\* back-ends.
C2_ValuePositionLegality ==
  call.op \in {"write_value", "enter_array", "enter_object"} =>
    /\ (fpre.stack # <<>> /\ Top(fpre.stack) \in {in_object, post_pair, postdoc})
         => (fexc # "none" /\ fs.file = fpre.file)
    /\ (mpre.state # <<>> /\ Top(mpre.state) \in {in_object, post_pair, postdoc})
         => (mexc # "none" /\ ms.heap = mpre.heap)

\* C3: on both back-ends exit_array returns only from InArray or PostElem,
\* exit_object only from InObject or PostPair, write_key only from InObject
\* or PostPair (each raises from every other top state), and a write_key
\* that returns leaves the top state InPair.
C3_ExitAndKeyLegality ==
  /\ call.op = "exit_array" =>
       /\ fexc = "none" =>
            (fpre.stack # <<>> /\ Top(fpre.stack) \in {in_array, post_elem})
       /\ mexc = "none" =>
            (mpre.state # <<>> /\ Top(mpre.state) \in {in_array, post_elem})
  /\ call.op = "exit_object" =>
       /\ fexc = "none" =>
            (fpre.stack # <<>> /\ Top(fpre.stack) \in {in_object, post_pair})
       /\ mexc = "none" =>
            (mpre.state # <<>> /\ Top(mpre.state) \in {in_object, post_pair})
  /\ call.op = "write_key" =>
       /\ fexc = "none" =>
            /\ fpre.stack # <<>> /\ Top(fpre.stack) \in {in_object, post_pair}
            /\ Top(fs.stack) = in_pair
       /\ mexc = "none" =>
            /\ mpre.state # <<>> /\ Top(mpre.state) \in {in_object, post_pair}
            /\ Top(ms.state) = in_pair

\* C3 witness: a write_key accepted from PostPair by both back-ends
C3_Witness ==
  /\ call.op = "write_key"
  /\ fexc = "none" /\ mexc = "none"
  /\ Top(fpre.stack) = post_pair /\ Top(mpre.state) = post_pair
  /\ Len(fpre.stack) = 2

\* C4: after a root scalar is written from PreDoc, and after the exit call
\* that closes a scope opened from PreDoc, the stack is exactly <<PostDoc>>,
\* on both back-ends.  (The in-memory root holder has a single item exactly
\* when the scope being closed was opened from PreDoc.)
C4_RootFinishedIsPostDoc ==
  /\ (call.op = "write_value" /\ fpre.stack = <<predoc>> /\ fexc = "none")
       => fs.stack = <<postdoc>>
  /\ (call.op = "write_value" /\ mpre.state = <<predoc>> /\ mexc = "none")
       => ms.state = <<postdoc>>
  /\ (call.op \in {"exit_array", "exit_object"} /\ fexc = "none"
        /\ Len(fpre.stack) = 2 /\ fpre.stack[1] = predoc)
       => fs.stack = <<postdoc>>
  /\ (call.op \in {"exit_array", "exit_object"} /\ mexc = "none"
        /\ Len(mpre.state) = 2 /\ Len(mpre.heap[mpre.value[1]].items) = 1)
       => ms.state = <<postdoc>>

\* C5: write_pair(key, value) from InObject or PostPair whose value cannot
\* be encoded: the key is written, null is written as its value (after a
\* comma exactly when a pair precedes it), the top state is PostPair and the
\* rest of the stack is untouched, and the encoding failure reaches the
\* caller.
C5_WritePairRecovery ==
  call.op = "write_pair" =>
    /\ ( /\ fpre.stack # <<>>
         /\ Top(fpre.stack) \in {in_object, post_pair}
         /\ FileEncodingFails(call.value, call.cls) )
       => /\ fexc = "TypeError"
          /\ fs.stack = SetTop(fpre.stack, post_pair)
          /\ fs.depth = fpre.depth
          /\ fs.file = fpre.file
               \o (IF Top(fpre.stack) = post_pair THEN <<",", "\n">> ELSE <<>>)
               \o Spaces(fpre.depth * fpre.indent)
               \o <<dumps_key(call.key), ": ", "null">>
    /\ ( /\ mpre.state # <<>>
         /\ Top(mpre.state) \in {in_object, post_pair}
         /\ MemoryEncodingFails(call.value, call.cls) )
       => /\ mexc = "TypeError"
          /\ ms.state = SetTop(mpre.state, post_pair)
          /\ ms.value = mpre.value
          /\ \E i \in 1..Len(ms.heap[Top(ms.value)].items) :
               ms.heap[Top(ms.value)].items[i] =
                 [k |-> call.key, v |-> Scalar("None")]

\* C5 witness: a write_pair of an unencodable value after a completed pair
C5_Witness ==
  /\ call.op = "write_pair"
  /\ Top(fpre.stack) = post_pair
  /\ Len(fpre.stack) = 2
  /\ FileEncodingFails(call.value, call.cls)
  /\ fexc = "TypeError"

\* C6: when a wrap_array / wrap_object block whose scope is still the
\* innermost open scope is left, by completion or by failure of the body,
\* the stack has the length it had before the block was entered.
C6_WrapRestoresStack ==
  call.op = "wrap_exit" =>
    /\ (call.frame.fin /\ call.frame.fok
          /\ Len(fpre.stack) = call.frame.fbase + 1)
         => Len(fs.stack) = call.frame.fbase
    /\ (call.frame.min /\ call.frame.mok
          /\ Len(mpre.state) = call.frame.mbase + 1)
         => Len(ms.state) = call.frame.mbase

\* C7: on the text back-end unwind returns without raising and leaves the
\* stack a single PreDoc or PostDoc entry.
C7_UnwindReachesTerminal ==
  call.op = "unwind" =>
    /\ fexc = "none"
    /\ fs.stack \in {<<predoc>>, <<postdoc>>}

\* C8: unwind called when the stack is the single entry PreDoc or PostDoc
\* returns without raising and changes nothing, on both back-ends.
C8_UnwindIdempotent ==
  call.op = "unwind" =>
    /\ fpre.stack \in {<<predoc>>, <<postdoc>>}
         => (fexc = "none" /\ fs = fpre)
    /\ mpre.state \in {<<predoc>>, <<postdoc>>}
         => (mexc = "none" /\ ms = mpre)

\* C9: in the text output every comma stands between two siblings: it is
\* not the first thing in a scope, it is not doubled, and it is not
\* directly followed (white space aside) by a closing bracket or brace.
C9_CommasOnlyBetweenSiblings ==
  \A i \in 1..Len(fs.file) :
    fs.file[i] = "," =>
      /\ PrevSolid(fs.file, i - 1) \notin {"[", "{", ","}
      /\ NextSolid(fs.file, i + 1) \notin {"]", "}", ","}

\* C10: when a pass is done the callback has been invoked exactly once per
\* value node, in the order the nodes were reduced (children before their
\* parent), each time with the path from the root to that node.
C10_CallbackOncePerNode ==
  pc = "done" => [i \in 1..Len(calls) |-> calls[i].path] = nodes

\* C11: the result of a completed pass is the tree in which every value
\* node is replaced, bottom-up, by the callback's return value for it; with
\* the identity callback of PrintingTransformer this is the plain parse.
C11_PassReplacesEveryNode ==
  pc = "done" => cur = Replaced(doc, cb)

\* The part of C11 about PrintingTransformer: its pass returns the plain
\* parse of the document.
C11_IdentityIsPlainParse ==
  (pc = "done" /\ cb = "PrintingTransformer") => cur = PlainParse(doc)

\* C12: dict_to_object returns an object that has real and imag, at least
\* one of them not a float, and no dtype / array pair, with exactly the
\* fields and values it had.
C12_PlainObjectsUntouched ==
  (/\ cop = "called"
   /\ {"real", "imag"} \subseteq DOMAIN cin.fields
   /\ cin.fields["real"].t # "float" \/ cin.fields["imag"].t # "float"
   /\ ~({"dtype", "array"} \subseteq DOMAIN cin.fields))
    => cout = Ok(cin)

\* C13: decoding what encoding a complex number or a float64 / complex128
\* array gives returns the number, resp. an array of the same dtype, shape
\* and elements.
C13_NumericRoundTrip ==
  cop = "decoded" => cout = Ok(cin)

\* The part of C13 that holds: on Python 2, complex numbers, and arrays
\* none of whose axes before the last is empty.
C13_RoundTripOfNonEmpty ==
  (/\ cop = "decoded"
   /\ py = "python2"
   /\ cin.t = "ndarray" =>
         \A i \in 1..(Len(cin.shape) - 1) : cin.shape[i] # 0)
    => cout = Ok(cin)

\* C14: under every sequence of plain calls on fresh instances, each call
\* is accepted by both back-ends or raises on both.
C14_BackendsAgree ==
  (fexc = "none") <=> (mexc = "none")

\* The calls so far are balanced and have written one root value
Balanced ==
  /\ told.on
  /\ Len(told.frames) = 1
  /\ Len(told.frames[1].items) = 1

\* C15: after a legal, balanced sequence of calls on a fresh in-memory
\* back-end, the single entry of the root holder is the tree the calls
\* describe: elements in call order, every key with the value or container
\* written right after it, whatever keys were written further inside.
C15_MemoryBuildsDescribedTree ==
  Balanced =>
    /\ mexc = "none"
    /\ Built(ms.heap, Ref(ms.value[1])).items = told.frames[1].items

\* C15 witness: {"a": {"b": ...}} has been written, the inner key differing
\* from the key of the enclosing pair
C15_Witness ==
  /\ Balanced
  /\ call.op = "exit_object"
  /\ LET root == told.frames[1].items[1].v
     IN /\ root.kind = "dict"
        /\ Len(root.items) = 1
        /\ root.items[1].k = "a"
        /\ root.items[1].v.kind = "dict"
        /\ Len(root.items[1].v.items) = 1
        /\ root.items[1].v.items[1].k = "b"

\* C16: in the text back-end, after every call, returned or raised, the
\* depth counter equals the length of the state stack minus one.
C16_DepthIsStackLengthMinusOne ==
  fs.depth = Len(fs.stack) - 1

\* C16 witness: an inner array has been left, inside an outer container
C16_Witness ==
  /\ call.op = "exit_array"
  /\ fexc = "none"
  /\ Len(fpre.stack) = 3
  /\ fs.depth = 1

\* C17: at every invocation of the callback the path stack is as long as
\* the node reported is deep (enclosing arrays plus enclosing pairs), and
\* after a pass that completes the path stack is empty.
C17_PathLengthIsDepth ==
  /\ \A i \in 1..Len(calls) : Len(calls[i].path) = Len(calls[i].node)
  /\ pc = "done" => sel_stack = <<>>

\* C17 holds in the first pass of an instance.
C17_FirstPass ==
  passes = 1 => C17_PathLengthIsDepth

\* C18: at the start of every pass run on an instance the path stack is
\* empty, also after a pass aborted by a callback failure inside an array
\* or object.
C18_StackEmptyAtStartOfPass ==
  (pc = "value" /\ doc = <<>>) => sel_stack = <<>>

\* The methods of the back-ends themselves (write_pair and the wrap_*
\* helpers are made of several of them)
BackendOps ==
  {"enter_array", "exit_array", "enter_object", "exit_object",
   "write_key", "write_value", "unwind"}

\* C19: a call of a back-end method that raises leaves the state stack as
\* it found it, on the text back-end and on the in-memory back-end.
C19_RaisingCallKeepsStack ==
  call.op \in BackendOps =>
    /\ fexc # "none" => fs.stack = fpre.stack
    /\ mexc # "none" => ms.state = mpre.state

\* The in-memory back-end alone satisfies C19.
C19_MemoryKeepsStack ==
  (call.op \in BackendOps /\ mexc # "none") => ms.state = mpre.state

\* C20: when the body of a wrap_array / wrap_object block fails and the
\* block's scope is still the innermost open one, the caller receives the
\* body's own failure.
C20_BodyFailurePropagates ==
  (call.op = "wrap_exit" /\ call.body = "BodyError") =>
    /\ (call.frame.fin /\ call.frame.fok
          /\ Len(fpre.stack) = call.frame.fbase + 1)
         => fexc = "BodyError"
    /\ (call.frame.min /\ call.frame.mok
          /\ Len(mpre.state) = call.frame.mbase + 1)
         => mexc = "BodyError"

\* On Python 3 no text is decoded with NumericDecoder at all.
C13_Python3NeverDecodes ==
  (cop \in {"decoded", "hooked"} /\ py = "python3") => cout.exc = "TypeError"

\* Through json.loads on Python 2 the hook does to a hand-written object
\* what dict_to_object does to it.
C12_HookIsDictToObject ==
  (cop = "hooked" /\ py = "python2") => cout = dict_to_object(cin)

====
